---------------------------- MODULE Spec2Model ----------------------------
(***************************************************************************)
(* A model of gen/footer.py of pysnirf2: the hand-written extensions that  *)
(* are appended to the generated SNIRF interface.                          *)
(*                                                                         *)
(*   - MetaDataTags.add / remove            (SpecTags)                     *)
(*   - Probe._validate                      (SpecProbe)                    *)
(*   - DataElement / StimElement / AuxElement._validate and the document   *)
(*     level Snirf.validate / Snirf._validate   (SpecData, SpecDoc)        *)
(*   - Snirf.save / close / __enter__ / __exit__ / __getitem__ (SpecLife)  *)
(*                                                                         *)
(* The generated base classes (ValidationResult, the template _validate    *)
(* of every group, the property getters) are not part of footer.py; the    *)
(* few pieces of them the footer relies on are modelled from the written   *)
(* specification and are marked as such where they are defined.            *)
(***************************************************************************)
EXTENDS Naturals, Sequences, FiniteSets, TLC

VARIABLES
    \* ---- MetaDataTags ----
    dict,               \* the instance __dict__ restricted to user visible keys
    unspecified_names,  \* self._unspecified_names, a Python list
    extra,              \* ghost: names added by a successful add and not removed since
    tagOp,              \* ghost: the last add/remove call, its outcome and the state before it
    \* ---- Probe validation ----
    probe,              \* the fields of one Probe group
    probeRun,           \* the _add calls and the ValidationResult of the last Probe._validate
    \* ---- element validation ----
    elem,               \* one Data / Stim / Aux element
    elemRun,            \* outcome, _add calls and result of the last element _validate
    \* ---- document validation ----
    doc,                \* the nirs sub-trees of a document
    edits,              \* number of modifications made to doc so far
    docRun,             \* outcome, _add calls and result of the last Snirf.validate
    \* ---- document life cycle ----
    h,                  \* self._h: the store handle (open flag and filename)
    tree,               \* version of the in-memory tree
    store,              \* contents of every backend (file path or stream)
    scope,              \* position of a `with Snirf(...)` block
    lifeOp              \* ghost: the last life cycle call and what it did

tagVars   == <<dict, unspecified_names, extra, tagOp>>
probeVars == <<probe, probeRun>>
elemVars  == <<elem, elemRun>>
docVars   == <<doc, edits, docRun>>
lifeVars  == <<h, tree, store, scope, lifeOp>>
vars      == <<tagVars, probeVars, elemVars, docVars, lifeVars>>

Range(s) == {s[i] : i \in 1..Len(s)}

(***************************************************************************)
(*                              MetaDataTags                               *)
(***************************************************************************)

\* Largest tag value offered to add()
MaxTagValue == 2

TagValues == 1..MaxTagValue

\* Names that footer.py line 17 calls protected attributes of MetaDataTags
ProtectedNames == {"location", "filename"}

FreeNames == {"customTag", "otherTag"}

\* Arguments offered as `name`: strings, and one object that is not a str
NameArgs == [type : {"str"}, text : ProtectedNames \cup FreeNames]
            \cup {[type |-> "int", text |-> "5"]}

\* type(name) is not str
NotStr(name) == name.type # "str"

\* self.__dict__[name] = value : item assignment on a plain dict
DictSetItem(d, key, value) ==
    [k \in DOMAIN d \cup {key} |-> IF k = key THEN value ELSE d[k]]

\* del self.__dict__[name]
DictDelItem(d, key) == [k \in DOMAIN d \ {key} |-> d[k]]

\* Whether the statement in the try block of add() raises AttributeError.
\* The statement is an item assignment on self.__dict__, which does not go
\* through attribute lookup: no property of the class can reject it.
SetItemRaisesAttributeError(d, key) == FALSE

\* MetaDataTags.add(name, value): the outcome and the state it leaves
MetaDataTags_add(d, names, name, value) ==
    IF NotStr(name)
    THEN [outcome |-> "ValueError", dict |-> d, names |-> names]
    ELSE IF SetItemRaisesAttributeError(d, name.text)
    THEN [outcome |-> "AttributeError", dict |-> d, names |-> names]
    ELSE [outcome |-> "ok",
          dict    |-> DictSetItem(d, name.text, value),
          names   |-> IF name.text \notin Range(names)
                      THEN Append(names, name.text) ELSE names]

\* MetaDataTags.remove(name): the outcome and the state it leaves
MetaDataTags_remove(d, names, name) ==
    IF NotStr(name)
    THEN [outcome |-> "ValueError", dict |-> d, names |-> names]
    ELSE IF name.text \notin Range(names)
    THEN [outcome |-> "AttributeError", dict |-> d, names |-> names]
    ELSE IF name.text \notin DOMAIN d
    THEN [outcome |-> "KeyError", dict |-> d, names |-> names]
    ELSE [outcome |-> "ok", dict |-> DictDelItem(d, name.text), names |-> names]

NoTagOp == [op |-> "none", name |-> [type |-> "str", text |-> "customTag"],
            outcome |-> "ok", dictBefore |-> <<>>, namesBefore |-> <<>>,
            extraBefore |-> {}]

\* A MetaDataTags group of a file that holds no unspecified tag
InitTags ==
    /\ dict = <<>>
    /\ unspecified_names = <<>>
    /\ extra = {}
    /\ tagOp = NoTagOp

Add(name, value) ==
    LET r == MetaDataTags_add(dict, unspecified_names, name, value) IN
    /\ dict' = r.dict
    /\ unspecified_names' = r.names
    /\ extra' = IF r.outcome = "ok" THEN extra \cup {name.text} ELSE extra
    /\ tagOp' = [op |-> "add", name |-> name, outcome |-> r.outcome,
                 dictBefore |-> dict, namesBefore |-> unspecified_names,
                 extraBefore |-> extra]

Remove(name) ==
    LET r == MetaDataTags_remove(dict, unspecified_names, name) IN
    /\ dict' = r.dict
    /\ unspecified_names' = r.names
    /\ extra' = IF r.outcome = "ok" THEN extra \ {name.text} ELSE extra
    /\ tagOp' = [op |-> "remove", name |-> name, outcome |-> r.outcome,
                 dictBefore |-> dict, namesBefore |-> unspecified_names,
                 extraBefore |-> extra]

TagAdd == \E name \in NameArgs, value \in TagValues : Add(name, value)

TagRemove == \E name \in NameArgs : Remove(name)


(***************************************************************************)
(*                            ValidationResult                             *)
(***************************************************************************)

\* Python None and a present value
None == <<>>
Some(v) == <<v>>
Val(o) == o[1]

\* The locations that already hold an issue
Locations(result) == {result[i][1] : i \in 1..Len(result)}

\* ValidationResult._add(location, code). The method is part of the generated
\* code; footer.py lines 129-130 and section 4.5 of the specification give its
\* contract: a location that already holds an issue keeps it, a later code for
\* the same location is dropped.
ResultAdd(result, loc, code) ==
    IF loc \in Locations(result) THEN result ELSE Append(result, <<loc, code>>)

\* A sequence of _add calls made in order on the same result: of the calls for
\* one location only the first changes the result
AddAll(result, calls) ==
    LET all  == result \o calls
        keep == {i \in 1..Len(all) : \A j \in 1..(i - 1) : all[j][1] # all[i][1]}
        nth(n) == CHOOSE i \in keep : Cardinality({j \in keep : j <= i}) = n
    IN  [n \in 1..Cardinality(keep) |-> all[nth(n)]]

\* The codes a sequence of <<location, code>> pairs holds for a location
CodesAt(pairs, loc) == {pairs[i][2] : i \in {j \in 1..Len(pairs) : pairs[j][1] = loc}}

\* How many pairs of the sequence are exactly <<loc, code>>
Count(pairs, loc, code) == Cardinality({i \in 1..Len(pairs) : pairs[i] = <<loc, code>>})

\* The template rule of a dataset field (generated code, modelled from section
\* 4.5): an absent field is reported as missing, required or optional; a present
\* field gets OK when its presence policy is not trivial and nothing otherwise.
BaseField(loc, present, required, reportsOK) ==
    IF ~present
    THEN << <<loc, IF required THEN "REQUIRED_DATASET_MISSING"
                               ELSE "OPTIONAL_DATASET_MISSING">> >>
    ELSE IF reportsOK THEN << <<loc, "OK">> >> ELSE <<>>

(***************************************************************************)
(*                             Probe._validate                             *)
(***************************************************************************)

\* What self._sourceLabels can hold: nothing, an array in memory, or the
\* marker _PresentDataset of a dataset that was left in the file ("lazy")
SourceLabelsStates ==
    {"absent", "lazy", "valid1d", "valid2d", "badshape", "badtype", "unconvertible"}

\* What the group self._h of the Probe holds under 'sourceLabels': no dataset,
\* a dataset, or nothing that can be read because the file is closed
HandleStates == {"closed", "none", "valid1d", "valid2d", "badshape", "badtype"}

CoordinateSystemStates == {"absent", "recognized", "unrecognized"}

\* A lazy sourceLabels is the marker of a dataset of the file: the file holds
\* it, unless it has been closed since
Probes == {p \in [location : {"/nirs1/probe"},
                  sourceLabels : SourceLabelsStates,
                  handle : HandleStates,
                  sourcePos2D : BOOLEAN, detectorPos2D : BOOLEAN,
                  sourcePos3D : BOOLEAN, detectorPos3D : BOOLEAN,
                  coordinateSystem : CoordinateSystemStates,
                  coordinateSystemDescription : BOOLEAN] :
               p.sourceLabels = "lazy" => p.handle # "none"}

\* _validate_string_array(dataset, ndims=[1, 2]) of the generated code, on a
\* dataset that could be read or created
ValidateStringArray12(labels) ==
    CASE labels \in {"valid1d", "valid2d"} -> "OK"
      [] labels = "badshape" -> "INVALID_DATASET_SHAPE"
      [] OTHER -> "INVALID_DATASET_TYPE"

\* `'sourceLabels' in self._h` (line 95): a closed group answers False
HandleContains(handle) == handle \notin {"closed", "none"}

\* Lines 94-98, the dataset that is validated: the one of the file when the
\* value is lazy or the file holds one (line 96, a ValueError on a closed
\* file), else the one created from the value in memory (line 98, a
\* ValueError when the value cannot be converted)
SourceLabelsDataset(p) ==
    IF p.sourceLabels = "lazy" \/ HandleContains(p.handle)
    THEN IF p.handle = "closed" THEN "ValueError" ELSE p.handle
    ELSE IF p.sourceLabels = "unconvertible" THEN "ValueError"
    ELSE p.sourceLabels

\* Lines 89-101: the sourceLabels override
SourceLabelsRule(p) ==
    IF p.sourceLabels = "absent"
    THEN << <<p.location \o "/sourceLabels", "OPTIONAL_DATASET_MISSING">> >>
    ELSE IF SourceLabelsDataset(p) = "ValueError"              \* lines 100-101
    THEN << <<p.location \o "/sourceLabels", "INVALID_DATASET_TYPE">> >>
    ELSE << <<p.location \o "/sourceLabels",
              ValidateStringArray12(SourceLabelsDataset(p))>> >>

\* ['REQUIRED_DATASET_MISSING', 'OK'][int(present)]
MissingOrOK(present) == IF present THEN "OK" ELSE "REQUIRED_DATASET_MISSING"

\* The 2D / 3D rule with the 3D pair tested first
PositionRule3DFirst(p) ==
    LET s2 == p.sourcePos2D
        d2 == p.detectorPos2D
        s3 == p.sourcePos3D
        d3 == p.detectorPos3D
        at(f, c) == <<p.location \o f, c>>
    IN  IF s3 /\ d3
        THEN << at("/sourcePos2D", "OPTIONAL_DATASET_MISSING"),
                at("/detectorPos2D", "OPTIONAL_DATASET_MISSING"),
                at("/sourcePos3D", "OK"),
                at("/detectorPos3D", "OK") >>
        ELSE IF s2 /\ d2
        THEN << at("/sourcePos2D", "OK"),
                at("/detectorPos2D", "OK"),
                at("/sourcePos3D", "OPTIONAL_DATASET_MISSING"),
                at("/detectorPos3D", "OPTIONAL_DATASET_MISSING") >>
        ELSE << at("/sourcePos2D", MissingOrOK(s2)),
                at("/detectorPos2D", MissingOrOK(d2)),
                at("/sourcePos3D", MissingOrOK(s3)),
                at("/detectorPos3D", MissingOrOK(d3)) >>

\* Lines 103-121: the 2D / 3D position rule
PositionRule(p) ==
    LET s2 == p.sourcePos2D
        d2 == p.detectorPos2D
        s3 == p.sourcePos3D
        d3 == p.detectorPos3D
        at(f, c) == <<p.location \o f, c>>
    IN  IF s2 /\ d2
        THEN << at("/sourcePos2D", "OK"),
                at("/detectorPos2D", "OK"),
                at("/sourcePos3D", "OPTIONAL_DATASET_MISSING"),
                at("/detectorPos3D", "OPTIONAL_DATASET_MISSING") >>
        ELSE IF s3 /\ d3
        THEN << at("/sourcePos2D", "OPTIONAL_DATASET_MISSING"),
                at("/detectorPos2D", "OPTIONAL_DATASET_MISSING"),
                at("/sourcePos3D", "OK"),
                at("/detectorPos3D", "OK") >>
        ELSE << at("/sourcePos2D", MissingOrOK(s2)),
                at("/detectorPos2D", MissingOrOK(d2)),
                at("/sourcePos3D", MissingOrOK(s3)),
                at("/detectorPos3D", MissingOrOK(d3)) >>

\* Lines 123-127: the coordinate system rule
CoordinateSystemRule(p) ==
    IF p.coordinateSystem = "unrecognized"
    THEN << <<p.location \o "/coordinateSystem", "UNRECOGNIZED_COORDINATE_SYSTEM">> >>
         \o (IF ~p.coordinateSystemDescription
             THEN << <<p.location \o "/coordinateSystemDescription",
                       "NO_COORDINATE_SYSTEM_DESCRIPTION">> >>
             ELSE <<>>)
    ELSE <<>>

\* Lines 89-127: everything Probe._validate adds before it calls the template
ProbeOverride(p) == SourceLabelsRule(p) \o PositionRule(p) \o CoordinateSystemRule(p)

\* The template Probe._validate (generated code): one rule per declared field.
\* It takes sourceLabels, read as the override reads it, for a one-dimensional
\* array (line 89) and every position array for a required dataset.
ProbeTemplate(p) ==
    BaseField(p.location \o "/sourcePos2D", p.sourcePos2D, TRUE, TRUE)
    \o BaseField(p.location \o "/sourcePos3D", p.sourcePos3D, TRUE, TRUE)
    \o BaseField(p.location \o "/detectorPos2D", p.detectorPos2D, TRUE, TRUE)
    \o BaseField(p.location \o "/detectorPos3D", p.detectorPos3D, TRUE, TRUE)
    \o (CASE p.sourceLabels = "absent" ->
               << <<p.location \o "/sourceLabels", "OPTIONAL_DATASET_MISSING">> >>
          [] SourceLabelsDataset(p) = "valid1d" -> <<>>
          [] SourceLabelsDataset(p) \in {"valid2d", "badshape"} ->
               << <<p.location \o "/sourceLabels", "INVALID_DATASET_SHAPE">> >>
          [] OTHER ->
               << <<p.location \o "/sourceLabels", "INVALID_DATASET_TYPE">> >>)
    \o BaseField(p.location \o "/coordinateSystem",
                 p.coordinateSystem # "absent", FALSE, FALSE)
    \o BaseField(p.location \o "/coordinateSystemDescription",
                 p.coordinateSystemDescription, FALSE, FALSE)

\* Probe._validate with the template called first
Probe_validate_TemplateFirst(p) == ProbeTemplate(p) \o ProbeOverride(p)

\* Probe._validate (lines 87-131): the _add calls it makes, in order
Probe_validate(p) == ProbeOverride(p) \o ProbeTemplate(p)

NoRun == [done |-> FALSE, outcome |-> "none", calls |-> <<>>, rule |-> <<>>,
          result |-> <<>>]

\* The record of a validation run on a fresh ValidationResult: how it ended
\* ("returned" or the exception that escaped), every _add call it made, the
\* calls among them made by the hand-written rule, and the result object
Ran(outcome, calls, rule) ==
    [done |-> TRUE, outcome |-> outcome, calls |-> calls, rule |-> rule,
     result |-> AddAll(<<>>, calls)]

InitProbe ==
    /\ probe \in Probes
    /\ probeRun = NoRun

\* probe._validate(ValidationResult())
ProbeValidate ==
    /\ ~probeRun.done
    /\ probeRun' = Ran("returned", Probe_validate(probe), ProbeOverride(probe))
    /\ UNCHANGED probe


(***************************************************************************)
(*            DataElement, StimElement, AuxElement : _validate             *)
(***************************************************************************)

\* Largest extent of one array dimension, and largest length of a list
MaxDim == 2

\* Largest number of dimensions of an array
MaxRank == 2

\* np.shape(x): one extent per dimension
Shapes == UNION {[1..n -> 0..MaxDim] : n \in 0..MaxRank}

Opt(S) == {None} \cup {Some(v) : v \in S}

\* ndarray.size: the product of the extents
RECURSIVE Size(_)
Size(shape) == IF shape = <<>> THEN 1 ELSE Head(shape) * Size(Tail(shape))

\* A MeasurementList entry
MLEntries(indices) ==
    [sourceIndex : Opt(indices), detectorIndex : Opt(indices),
     wavelengthIndex : Opt(indices)]

EmptyEntry == [sourceIndex |-> None, detectorIndex |-> None, wavelengthIndex |-> None]

\* An element: `time` is the size of the time vector, `array` the shape of
\* dataTimeSeries (Data, Aux) or data (Stim), `dataLabels` the size of the
\* label array (Stim)
DataElements ==
    [kind : {"data"}, time : Opt(0..MaxDim), array : Opt(Shapes),
     dataLabels : {None},
     measurementList : UNION {[1..n -> {EmptyEntry}] : n \in 0..MaxDim}]

StimElements ==
    [kind : {"stim"}, time : {None}, array : Opt(Shapes),
     dataLabels : Opt(0..MaxDim), measurementList : {<<>>}]

AuxElements ==
    [kind : {"aux"}, time : Opt(0..MaxDim), array : Opt(Shapes),
     dataLabels : {None}, measurementList : {<<>>}]

Returned(calls) == [outcome |-> "returned", calls |-> calls]
Raised(exc, calls) == [outcome |-> exc, calls |-> calls]

\* Lines 42-47 of StimElement._validate
StimElementRule(loc, e) ==
    IF e.array # None /\ e.dataLabels # None
    THEN IF Len(Val(e.array)) < 2        \* np.shape(self.data)[1]: IndexError, caught
         THEN Returned(<< <<loc \o "/data", "INVALID_DATASET_SHAPE">> >>)
         ELSE IF Val(e.array)[2] # Val(e.dataLabels)
         THEN Returned(<< <<loc \o "/dataLabels", "INVALID_STIM_DATALABELS">> >>)
         ELSE Returned(<<>>)
    ELSE Returned(<<>>)

\* Lines 59-61 of AuxElement._validate
AuxElementRule(loc, e) ==
    IF e.time # None /\ e.array # None
    THEN IF Val(e.time) # Size(Val(e.array))
         THEN Returned(<< <<loc \o "/time", "INVALID_TIME">> >>)
         ELSE Returned(<<>>)
    ELSE Returned(<<>>)

\* Lines 73-78 of DataElement._validate. np.shape(x)[k] raises IndexError when
\* x has no dimension k, and nothing here catches it.
DataElementRule(loc, e) ==
    IF e.time # None /\ e.array # None
    THEN LET shape == Val(e.array)
             timeCalls == IF Val(e.time) # shape[1]
                          THEN << <<loc \o "/time", "INVALID_TIME">> >> ELSE <<>>
         IN  IF Len(shape) < 1
             THEN Raised("IndexError", <<>>)
             ELSE IF Len(shape) < 2
             THEN Raised("IndexError", timeCalls)
             ELSE Returned(timeCalls
                           \o (IF Len(e.measurementList) # shape[2]
                               THEN << <<loc, "INVALID_MEASUREMENTLIST">> >>
                               ELSE <<>>))
    ELSE Returned(<<>>)

\* The template rule of one MeasurementList entry (generated code): the three
\* indices are required datasets
EntryTemplate(loc, ml) ==
    BaseField(loc \o "/sourceIndex", ml.sourceIndex # None, TRUE, FALSE)
    \o BaseField(loc \o "/detectorIndex", ml.detectorIndex # None, TRUE, FALSE)
    \o BaseField(loc \o "/wavelengthIndex", ml.wavelengthIndex # None, TRUE, FALSE)

RECURSIVE EntriesTemplate(_, _, _)
EntriesTemplate(loc, mls, k) ==
    IF k > Len(mls) THEN <<>>
    ELSE EntryTemplate(loc \o "/measurementList" \o ToString(k), mls[k])
         \o EntriesTemplate(loc, mls, k + 1)

\* The template rule of an element (generated code): its required datasets,
\* then its children
ElementTemplate(loc, e) ==
    CASE e.kind = "data" ->
           BaseField(loc \o "/dataTimeSeries", e.array # None, TRUE, FALSE)
           \o BaseField(loc \o "/time", e.time # None, TRUE, FALSE)
           \o EntriesTemplate(loc, e.measurementList, 1)
      [] e.kind = "stim" ->
           BaseField(loc \o "/data", e.array # None, TRUE, FALSE)
           \o BaseField(loc \o "/dataLabels", e.dataLabels # None, FALSE, FALSE)
      [] OTHER ->
           BaseField(loc \o "/dataTimeSeries", e.array # None, TRUE, FALSE)
           \o BaseField(loc \o "/time", e.time # None, TRUE, FALSE)

\* The hand-written rule of the element's class
ElementRule(loc, e) ==
    CASE e.kind = "data" -> DataElementRule(loc, e)
      [] e.kind = "stim" -> StimElementRule(loc, e)
      [] OTHER -> AuxElementRule(loc, e)

\* <Element>._validate: super()._validate(result), then the rule of the class.
\* outcome, every _add call, and the calls of the rule
Element_validate(loc, e) ==
    LET r == ElementRule(loc, e) IN
    [outcome |-> r.outcome, calls |-> ElementTemplate(loc, e) \o r.calls,
     rule |-> r.calls]

ElemLocation == "/nirs1/elem1"

InitElem ==
    /\ elem \in DataElements \cup StimElements \cup AuxElements
    /\ elemRun = NoRun

\* element._validate(ValidationResult())
ElemValidate ==
    /\ ~elemRun.done
    /\ LET r == Element_validate(ElemLocation, elem) IN
       elemRun' = Ran(r.outcome, r.calls, r.rule)
    /\ UNCHANGED elem


(***************************************************************************)
(*                   Snirf.validate and Snirf._validate                    *)
(***************************************************************************)

\* Largest MeasurementList index and largest label / wavelength count
MaxIndex == 2

\* Number of modifications made to a freshly built document
MaxEdits == 3

\* Largest number of nirs groups, and of elements in one indexed group
MaxGroups == 2

\* Shapes of sourceLabels: n labels, or n rows of two labels (line 89)
LabelShapes == {<<n>> : n \in 0..MaxIndex} \cup {<<n, 2>> : n \in 0..MaxIndex}

\* Shapes given to dataTimeSeries and data in a document
SeriesShapes == {<<MaxDim>>, <<MaxDim, 1>>}

EmptyProbe == [sourceLabels |-> None, detectorLabels |-> None, wavelengths |-> None]

EmptyData == [kind |-> "data", time |-> None, array |-> None, dataLabels |-> None,
              measurementList |-> <<EmptyEntry>>]

EmptyStim == [kind |-> "stim", time |-> None, array |-> None, dataLabels |-> None,
              measurementList |-> <<>>]

\* A nirs group with a Probe, one Data element holding one entry, and no Stim
EmptyNirs == [probe |-> Some(EmptyProbe), data |-> <<EmptyData>>, stim |-> <<>>]

NirsLocation(i) == "/nirs" \o ToString(i)
ProbeLocation(i) == NirsLocation(i) \o "/probe"
DataLocation(i, j) == NirsLocation(i) \o "/data" \o ToString(j)
StimLocation(i, j) == NirsLocation(i) \o "/stim" \o ToString(j)
EntryLocation(i, j, k) == DataLocation(i, j) \o "/measurementList" \o ToString(k)

\* Runs made one after the other on the same result: the first exception ends
\* the sequence and escapes
RECURSIVE Chain(_)
Chain(runs) ==
    IF Len(runs) = 0 THEN Returned(<<>>)
    ELSE IF Head(runs).outcome # "returned" THEN Head(runs)
    ELSE LET rest == Chain(Tail(runs)) IN
         [outcome |-> rest.outcome, calls |-> Head(runs).calls \o rest.calls]

RECURSIVE Flatten(_)
Flatten(ss) == IF Len(ss) = 0 THEN <<>> ELSE Head(ss) \o Flatten(Tail(ss))

\* The Probe group of a nirs group as Probe._validate reads it: the documents
\* of this part carry 2D positions and no coordinate system, and their
\* sourceLabels are set in memory, the file holding none
ProbeOf(i, p) ==
    [location |-> ProbeLocation(i),
     sourceLabels |-> IF p.sourceLabels = None THEN "absent"
                      ELSE IF Len(Val(p.sourceLabels)) = 1 THEN "valid1d"
                      ELSE "valid2d",
     handle |-> "none",
     sourcePos2D |-> TRUE, detectorPos2D |-> TRUE,
     sourcePos3D |-> FALSE, detectorPos3D |-> FALSE,
     coordinateSystem |-> "absent", coordinateSystemDescription |-> FALSE]

\* The template _validate of one nirs group (generated code, section 4.3): it
\* recurses into the declared children in order, each with the _validate of
\* its class
NirsTemplate(i, nirs) ==
    Chain([j \in 1..Len(nirs.data) |->
              Element_validate(DataLocation(i, j), nirs.data[j])]
          \o [j \in 1..Len(nirs.stim) |->
              Element_validate(StimLocation(i, j), nirs.stim[j])]
          \o << IF nirs.probe = None
                THEN Returned(<< <<ProbeLocation(i), "REQUIRED_GROUP_MISSING">> >>)
                ELSE Returned(Probe_validate(ProbeOf(i, Val(nirs.probe)))) >>)

\* super()._validate(result) of line 231: every nirs group in order
SnirfTemplate(d) == Chain([i \in 1..Len(d) |-> NirsTemplate(i, d[i])])

\* Lines 251-259: the three index checks of one entry
IndexChecks(loc, ml, lenSourceLabels, lenDetectorLabels, lenWavelengths) ==
    (IF ml.sourceIndex # None /\ Val(ml.sourceIndex) > lenSourceLabels
     THEN << <<loc \o "/sourceIndex", "INVALID_SOURCE_INDEX">> >> ELSE <<>>)
    \o (IF ml.detectorIndex # None /\ Val(ml.detectorIndex) > lenDetectorLabels
        THEN << <<loc \o "/detectorIndex", "INVALID_DETECTOR_INDEX">> >> ELSE <<>>)
    \o (IF ml.wavelengthIndex # None /\ Val(ml.wavelengthIndex) > lenWavelengths
        THEN << <<loc \o "/wavelengthIndex", "INVALID_WAVELENGTH_INDEX">> >> ELSE <<>>)

\* Lines 236-259: the index checks of one nirs group
NirsIndexChecks(i, nirs) ==
    IF nirs.probe # None
    THEN LET p == Val(nirs.probe)
             lenSourceLabels ==
                 IF p.sourceLabels # None THEN Val(p.sourceLabels)[1] ELSE 0
             lenDetectorLabels ==
                 IF p.detectorLabels # None THEN Val(p.detectorLabels) ELSE 0
             lenWavelengths ==
                 IF p.wavelengths # None THEN Val(p.wavelengths) ELSE 0
         IN  Flatten([j \in 1..Len(nirs.data) |->
                 Flatten([k \in 1..Len(nirs.data[j].measurementList) |->
                     IndexChecks(EntryLocation(i, j, k),
                                 nirs.data[j].measurementList[k],
                                 lenSourceLabels, lenDetectorLabels,
                                 lenWavelengths)])])
    ELSE <<>>

\* Lines 235-259: the index checks of the document
CrossReferencePass(d) == Flatten([i \in 1..Len(d) |-> NirsIndexChecks(i, d[i])])

\* Snirf._validate (lines 230-259): the template pass, then the index checks
Snirf__validate(d) ==
    LET t == SnirfTemplate(d) IN
    IF t.outcome # "returned"
    THEN [outcome |-> t.outcome, calls |-> t.calls, rule |-> <<>>]
    ELSE [outcome |-> "returned", calls |-> t.calls \o CrossReferencePass(d),
          rule |-> CrossReferencePass(d)]

\* Snirf.validate (lines 182-193): a fresh result, _validate, return it
Snirf_validate(d) ==
    LET r == Snirf__validate(d) IN Ran(r.outcome, r.calls, r.rule)

InitDoc ==
    /\ doc = <<EmptyNirs>>
    /\ edits = 0
    /\ docRun = NoRun

Edit(d) ==
    /\ edits < MaxEdits
    /\ doc' = d
    /\ edits' = edits + 1
    /\ docRun' = NoRun

\* snirf.nirs.appendGroup()
AppendNirs ==
    /\ Len(doc) < MaxGroups
    /\ Edit(Append(doc, EmptyNirs))

\* del nirs.probe
DelProbe ==
    \E i \in 1..Len(doc) :
        /\ doc[i].probe # None
        /\ Edit([doc EXCEPT ![i].probe = None])

\* nirs.probe.sourceLabels = ..., .detectorLabels = ..., .wavelengths = ...
SetProbeField ==
    \E i \in 1..Len(doc) :
        /\ doc[i].probe # None
        /\ \/ \E s \in LabelShapes :
                Edit([doc EXCEPT ![i].probe = Some([Val(@) EXCEPT !.sourceLabels = Some(s)])])
           \/ \E n \in 0..MaxIndex :
                Edit([doc EXCEPT ![i].probe = Some([Val(@) EXCEPT !.detectorLabels = Some(n)])])
           \/ \E n \in 0..MaxIndex :
                Edit([doc EXCEPT ![i].probe = Some([Val(@) EXCEPT !.wavelengths = Some(n)])])

\* nirs.data.appendGroup()
AppendData ==
    \E i \in 1..Len(doc) :
        /\ Len(doc[i].data) < MaxGroups
        /\ Edit([doc EXCEPT ![i].data = Append(@, EmptyData)])

\* data.time = ..., data.dataTimeSeries = ...
SetDataField ==
    \E i \in 1..Len(doc) : \E j \in 1..Len(doc[i].data) :
        \/ \E n \in {MaxDim - 1, MaxDim} :
             Edit([doc EXCEPT ![i].data[j].time = Some(n)])
        \/ \E s \in SeriesShapes :
             Edit([doc EXCEPT ![i].data[j].array = Some(s)])

\* data.measurementList.appendGroup()
AppendEntry ==
    \E i \in 1..Len(doc) : \E j \in 1..Len(doc[i].data) :
        /\ Len(doc[i].data[j].measurementList) < MaxGroups
        /\ Edit([doc EXCEPT ![i].data[j].measurementList = Append(@, EmptyEntry)])

\* ml.sourceIndex = ..., ml.detectorIndex = ..., ml.wavelengthIndex = ...
SetIndex ==
    \E i \in 1..Len(doc) : \E j \in 1..Len(doc[i].data) :
    \E k \in 1..Len(doc[i].data[j].measurementList) : \E v \in 1..MaxIndex :
        \/ Edit([doc EXCEPT ![i].data[j].measurementList[k].sourceIndex = Some(v)])
        \/ Edit([doc EXCEPT ![i].data[j].measurementList[k].detectorIndex = Some(v)])
        \/ Edit([doc EXCEPT ![i].data[j].measurementList[k].wavelengthIndex = Some(v)])

\* nirs.stim.appendGroup() and the fields of a Stim element
EditStim ==
    \E i \in 1..Len(doc) :
        \/ /\ Len(doc[i].stim) < MaxGroups
           /\ Edit([doc EXCEPT ![i].stim = Append(@, EmptyStim)])
        \/ \E j \in 1..Len(doc[i].stim) : \E s \in SeriesShapes :
             Edit([doc EXCEPT ![i].stim[j].array = Some(s)])
        \/ \E j \in 1..Len(doc[i].stim) : \E n \in {1, MaxDim} :
             Edit([doc EXCEPT ![i].stim[j].dataLabels = Some(n)])

\* snirf.validate()
DocValidate ==
    /\ ~docRun.done
    /\ docRun' = Snirf_validate(doc)
    /\ UNCHANGED <<doc, edits>>


(***************************************************************************)
(*        Snirf.save, close, __enter__, __exit__, __getitem__              *)
(***************************************************************************)

\* Number of modifications made to the in-memory tree
MaxTreeVersion == 1

\* A path is the sequence of its characters
Suffix == <<".", "s", "n", "i", "r", "f">>

\* str.endswith
EndsWith(path, suffix) ==
    /\ Len(path) >= Len(suffix)
    /\ SubSeq(path, Len(path) - Len(suffix) + 1, Len(path)) = suffix

\* str.replace('.', '')
RECURSIVE StripDots(_)
StripDots(path) ==
    IF path = <<>> THEN <<>>
    ELSE IF Head(path) = "." THEN StripDots(Tail(path))
    ELSE <<Head(path)>> \o StripDots(Tail(path))

\* Lines 155-157 with the result of replace() assigned back to path
SavePath_Replaced(path) ==
    IF ~EndsWith(path, Suffix) THEN StripDots(path) \o Suffix ELSE path

\* Lines 155-157: the value of str.replace is dropped, the suffix is appended
SavePath(path) ==
    IF ~EndsWith(path, Suffix) THEN path \o Suffix ELSE path

\* Paths given to save(): "a", "a.snirf", "b", "a.b"
PathArgs == {<<"a">>, <<"a">> \o Suffix, <<"b">>, <<"a", ".", "b">>}

\* Names of the files the document can be opened from
Filenames == {<<"a">> \o Suffix, <<"a", ".", "b">> \o Suffix}

File(path) == [kind |-> "file", id |-> path]
Stream(id) == [kind |-> "stream", id |-> id]

\* Every backend: the files a path can name, and one stream
Backends ==
    {File(f) : f \in Filenames}
    \cup {File(SavePath(q)) : q \in PathArgs}
    \cup {File(StripDots(q) \o Suffix) : q \in PathArgs}
    \cup {Stream(<<"io">>)}

\* Arguments of save(*args): nothing, a str, a file-like object, anything else
SaveArgs ==
    {[kind |-> "none", id |-> <<>>], [kind |-> "other", id |-> <<>>],
     [kind |-> "filelike", id |-> <<"io">>]}
    \cup {[kind |-> "str", id |-> q] : q \in PathArgs}

\* self._save(file) of the generated code (section 4.3): the tree is
\* reconciled into the backend
Save_(st, backend, tr) == [st EXCEPT ![backend] = Some(tr)]

\* Reading an attribute of self._h (.filename, .file, .close()): on a closed
\* handle the backend refuses
HandleRead(hh) == IF hh.open THEN "ok" ELSE "raised"

\* Snirf.save (lines 137-169): outcome, the store it leaves and whether it
\* used the handle self._h
Snirf_save(hh, tr, st, arg) ==
    LET own == File(hh.filename)
        inPlace ==                                    \* self._save(self._h.file)
            IF HandleRead(hh) = "ok"
            THEN [outcome |-> "ok", store |-> Save_(st, own, tr), used |-> TRUE]
            ELSE [outcome |-> "raised", store |-> st, used |-> TRUE]
    IN  IF arg.kind = "str"
        THEN LET path == SavePath(arg.id) IN
             IF HandleRead(hh) # "ok"                 \* self.filename, line 158
             THEN [outcome |-> "raised", store |-> st, used |-> TRUE]
             ELSE IF hh.filename = path
             THEN inPlace
             ELSE [outcome |-> "ok", store |-> Save_(st, File(path), tr),
                   used |-> TRUE]
        ELSE IF arg.kind = "filelike"
        THEN [outcome |-> "ok", store |-> Save_(st, Stream(arg.id), tr),
              used |-> FALSE]
        ELSE inPlace

\* Snirf.close (lines 204-214): self.filename is read for the log line, then
\* the handle is closed
Snirf_close(hh) ==
    IF HandleRead(hh) = "ok"
    THEN [outcome |-> "ok", h |-> [hh EXCEPT !.open = FALSE], used |-> TRUE]
    ELSE [outcome |-> "raised", h |-> hh, used |-> TRUE]

\* __exit__ returning True whatever happened in the block
ExitReturn_AlwaysTrue(exc_type) == TRUE

\* Line 221: return True if exc_type is None else False
ExitReturn(exc_type) == exc_type = "None"

NoLifeOp == [op |-> "none", arg |-> [kind |-> "none", id |-> <<>>],
             outcome |-> "ok", used |-> FALSE, wasOpen |-> TRUE,
             storeBefore |-> <<>>, filename |-> <<>>, tree |-> 0,
             exc |-> "None", propagated |-> FALSE, found |-> FALSE]

LifeOp(op, arg, outcome, used) ==
    [op |-> op, arg |-> arg, outcome |-> outcome, used |-> used,
     wasOpen |-> h.open, storeBefore |-> store, filename |-> h.filename,
     tree |-> tree, exc |-> "None", propagated |-> FALSE, found |-> FALSE]

\* A document opened from a file that holds the tree
InitLife ==
    /\ h \in [open : {TRUE}, filename : Filenames]
    /\ tree = 0
    /\ store = [b \in Backends |-> IF b = File(h.filename) THEN Some(0) ELSE None]
    /\ scope = "none"
    /\ lifeOp = NoLifeOp

\* A field of the tree is assigned
Modify ==
    /\ tree < MaxTreeVersion
    /\ tree' = tree + 1
    /\ lifeOp' = LifeOp("modify", [kind |-> "none", id |-> <<>>], "ok", FALSE)
    /\ UNCHANGED <<h, store, scope>>

\* snirf.save(*args)
Save ==
    \E arg \in SaveArgs :
        LET r == Snirf_save(h, tree, store, arg) IN
        /\ store' = r.store
        /\ lifeOp' = LifeOp("save", arg, r.outcome, r.used)
        /\ UNCHANGED <<h, tree, scope>>

\* snirf.validate() (lines 182-193): no test of the handle being open; how it
\* ends is decided by the tree, see Snirf_validate. Through self._validate it
\* reaches Probe._validate, which reads the handle (lines 95-96:
\* `'sourceLabels' in self._h`, self._h['sourceLabels']) whenever the Probe of
\* the tree has sourceLabels set, on a closed document too; the ValueError of
\* a closed handle is caught at line 100, so the read does not decide the end
Validate ==
    \E outcome \in {"ok", "raised"}, sourceLabelsSet \in BOOLEAN :
        /\ lifeOp' = LifeOp("validate", [kind |-> "none", id |-> <<>>], outcome,
                            sourceLabelsSet)
        /\ UNCHANGED <<h, tree, store, scope>>

\* snirf[key] (lines 223-228): `key in self._h`, then self._h[key]; when the
\* handle does not hold the key, and a closed handle answers that it does
\* not, the call returns None
GetItem ==
    \E inFile \in BOOLEAN :
        LET found == h.open /\ inFile IN
        /\ lifeOp' = [LifeOp("getitem", [kind |-> "none", id |-> <<>>], "ok", TRUE)
                        EXCEPT !.found = found]
        /\ UNCHANGED <<h, tree, store, scope>>

\* snirf.close()
Close ==
    LET r == Snirf_close(h) IN
    /\ h' = r.h
    /\ lifeOp' = LifeOp("close", [kind |-> "none", id |-> <<>>], r.outcome, r.used)
    /\ UNCHANGED <<tree, store, scope>>

\* with snirf: (lines 216-217)
Enter ==
    /\ scope = "none"
    /\ scope' = "in"
    /\ lifeOp' = LifeOp("enter", [kind |-> "none", id |-> <<>>], "ok", FALSE)
    /\ UNCHANGED <<h, tree, store>>

\* The block ends, normally or by an exception, and __exit__ runs (lines
\* 219-221): close(), then the return value decides whether the exception of
\* the block is swallowed. An exception of close() itself propagates.
Exit ==
    \E exc_type \in {"None", "IndexError", "ValueError"} :
        LET r == Snirf_close(h) IN
        /\ scope = "in"
        /\ scope' = "exited"
        /\ h' = r.h
        /\ lifeOp' = [LifeOp("exit", [kind |-> "none", id |-> <<>>], r.outcome, r.used)
                        EXCEPT !.exc = exc_type,
                               !.propagated =
                                   \/ r.outcome = "raised"
                                   \/ exc_type # "None" /\ ~ExitReturn(exc_type)]
        /\ UNCHANGED <<tree, store>>

(***************************************************************************)
(*                             Specifications                              *)
(***************************************************************************)

\* One fixed state of each part, for the specifications of the other parts
IdleTags  == InitTags
IdleProbe == probe = (CHOOSE p \in Probes : TRUE) /\ probeRun = NoRun
IdleElem  == elem = (CHOOSE e \in DataElements : TRUE) /\ elemRun = NoRun
IdleDoc   == InitDoc
IdleLife  == h = [open |-> TRUE, filename |-> <<"a">> \o Suffix] /\ InitLife

Init == InitTags /\ InitProbe /\ InitElem /\ InitDoc /\ InitLife

TagsInit  == IdleProbe /\ IdleElem /\ IdleDoc /\ IdleLife /\ InitTags
ProbeInit == IdleTags /\ IdleElem /\ IdleDoc /\ IdleLife /\ InitProbe
ElemInit  == IdleTags /\ IdleProbe /\ IdleDoc /\ IdleLife /\ InitElem
DocInit   == IdleTags /\ IdleProbe /\ IdleElem /\ IdleLife /\ InitDoc
LifeInit  == IdleTags /\ IdleProbe /\ IdleElem /\ IdleDoc /\ InitLife

NextTags ==
    \/ TagAdd /\ UNCHANGED <<probeVars, elemVars, docVars, lifeVars>>
    \/ TagRemove /\ UNCHANGED <<probeVars, elemVars, docVars, lifeVars>>

NextProbe == ProbeValidate /\ UNCHANGED <<tagVars, elemVars, docVars, lifeVars>>

NextElem == ElemValidate /\ UNCHANGED <<tagVars, probeVars, docVars, lifeVars>>

NextDoc ==
    \/ AppendNirs /\ UNCHANGED <<tagVars, probeVars, elemVars, lifeVars>>
    \/ DelProbe /\ UNCHANGED <<tagVars, probeVars, elemVars, lifeVars>>
    \/ SetProbeField /\ UNCHANGED <<tagVars, probeVars, elemVars, lifeVars>>
    \/ AppendData /\ UNCHANGED <<tagVars, probeVars, elemVars, lifeVars>>
    \/ SetDataField /\ UNCHANGED <<tagVars, probeVars, elemVars, lifeVars>>
    \/ AppendEntry /\ UNCHANGED <<tagVars, probeVars, elemVars, lifeVars>>
    \/ SetIndex /\ UNCHANGED <<tagVars, probeVars, elemVars, lifeVars>>
    \/ EditStim /\ UNCHANGED <<tagVars, probeVars, elemVars, lifeVars>>
    \/ DocValidate /\ UNCHANGED <<tagVars, probeVars, elemVars, lifeVars>>

NextLife ==
    \/ Modify /\ UNCHANGED <<tagVars, probeVars, elemVars, docVars>>
    \/ Save /\ UNCHANGED <<tagVars, probeVars, elemVars, docVars>>
    \/ Validate /\ UNCHANGED <<tagVars, probeVars, elemVars, docVars>>
    \/ GetItem /\ UNCHANGED <<tagVars, probeVars, elemVars, docVars>>
    \/ Close /\ UNCHANGED <<tagVars, probeVars, elemVars, docVars>>
    \/ Enter /\ UNCHANGED <<tagVars, probeVars, elemVars, docVars>>
    \/ Exit /\ UNCHANGED <<tagVars, probeVars, elemVars, docVars>>

\* MetaDataTags.add and remove
SpecTags == TagsInit /\ [][NextTags]_vars

\* Probe._validate on every Probe
SpecProbe == ProbeInit /\ [][NextProbe]_vars

\* The _validate of every Data, Stim and Aux element
SpecData == ElemInit /\ [][NextElem]_vars

\* Snirf.validate on the documents a few modifications build
SpecDoc == DocInit /\ [][NextDoc]_vars

\* The life cycle of a document
SpecLife == LifeInit /\ [][NextLife]_vars

Next == NextTags \/ NextProbe \/ NextElem \/ NextDoc \/ NextLife

Spec == Init /\ [][Next]_vars


(***************************************************************************)
(*                               Properties                                *)
(***************************************************************************)

\* C1: add(name, value) fails, leaving the tags and the registry of extra
\* names as they were, when name is not a str or is a protected name; for
\* every other str it succeeds and the name is in the registry.
C1_AddRejectsProtectedNames ==
    tagOp.op = "add" =>
        IF NotStr(tagOp.name) \/ tagOp.name.text \in ProtectedNames
        THEN /\ tagOp.outcome # "ok"
             /\ dict = tagOp.dictBefore
             /\ unspecified_names = tagOp.namesBefore
        ELSE /\ tagOp.outcome = "ok"
             /\ tagOp.name.text \in Range(unspecified_names)

\* C2: remove(name) succeeds exactly when name was added by a successful add
\* and not removed since, and never for a protected name.
C2_RemoveOnlyExtraNames ==
    tagOp.op = "remove" =>
        /\ tagOp.outcome = "ok"
             <=> (~NotStr(tagOp.name) /\ tagOp.name.text \in tagOp.extraBefore)
        /\ tagOp.name.text \in ProtectedNames => tagOp.outcome # "ok"

PositionFields == {"/sourcePos2D", "/detectorPos2D", "/sourcePos3D", "/detectorPos3D"}

PositionPresent(p, f) ==
    CASE f = "/sourcePos2D" -> p.sourcePos2D
      [] f = "/detectorPos2D" -> p.detectorPos2D
      [] f = "/sourcePos3D" -> p.sourcePos3D
      [] OTHER -> p.detectorPos3D

\* The code C3 states for a position array
PositionCode(p, f) ==
    IF p.sourcePos2D /\ p.detectorPos2D
    THEN IF f \in {"/sourcePos2D", "/detectorPos2D"}
         THEN "OK" ELSE "OPTIONAL_DATASET_MISSING"
    ELSE IF p.sourcePos3D /\ p.detectorPos3D
    THEN IF f \in {"/sourcePos3D", "/detectorPos3D"}
         THEN "OK" ELSE "OPTIONAL_DATASET_MISSING"
    ELSE IF PositionPresent(p, f) THEN "OK" ELSE "REQUIRED_DATASET_MISSING"

\* C3: for every presence of the four position arrays, Probe validation
\* emits, for each array, the code of the 2D-first rule: the rule adds
\* exactly that code for the location, once, and the result holds it.
C3_PositionCodes ==
    probeRun.done =>
        \A f \in PositionFields :
            /\ CodesAt(probeRun.rule, probe.location \o f) = {PositionCode(probe, f)}
            /\ Count(probeRun.rule, probe.location \o f, PositionCode(probe, f)) = 1
            /\ CodesAt(probeRun.result, probe.location \o f) = {PositionCode(probe, f)}

\* C3 witness: validated with all four arrays present, where 2D wins
C3_Witness ==
    /\ probeRun.done
    /\ probe.sourcePos2D /\ probe.detectorPos2D
    /\ probe.sourcePos3D /\ probe.detectorPos3D
    /\ <<probe.location \o "/sourcePos3D", "OPTIONAL_DATASET_MISSING">>
           \in Range(probeRun.result)

\* The size C4 compares an index with: rows of sourceLabels, number of
\* detectorLabels or wavelengths, 0 for an absent collection
CollectionSize(o, rows) ==
    IF o = None THEN 0 ELSE IF rows THEN Val(o)[1] ELSE Val(o)

ExpectedCount(index, size) == IF index # None /\ Val(index) > size THEN 1 ELSE 0

\* C4: for every entry of every Data element of every nirs group that has a
\* Probe, validation emits INVALID_SOURCE_INDEX (INVALID_DETECTOR_INDEX,
\* INVALID_WAVELENGTH_INDEX) exactly once if the index is present and greater
\* than the size of the Probe's collection, and not at all otherwise.
C4_IndexDiagnostics ==
    docRun.done =>
        \A i \in 1..Len(doc) : doc[i].probe # None =>
        \A j \in 1..Len(doc[i].data) :
        \A k \in 1..Len(doc[i].data[j].measurementList) :
            LET ml == doc[i].data[j].measurementList[k]
                p == Val(doc[i].probe)
                loc == EntryLocation(i, j, k)
            IN  /\ Count(docRun.rule, loc \o "/sourceIndex", "INVALID_SOURCE_INDEX")
                     = ExpectedCount(ml.sourceIndex, CollectionSize(p.sourceLabels, TRUE))
                /\ Count(docRun.rule, loc \o "/detectorIndex", "INVALID_DETECTOR_INDEX")
                     = ExpectedCount(ml.detectorIndex, CollectionSize(p.detectorLabels, FALSE))
                /\ Count(docRun.rule, loc \o "/wavelengthIndex", "INVALID_WAVELENGTH_INDEX")
                     = ExpectedCount(ml.wavelengthIndex, CollectionSize(p.wavelengths, FALSE))

\* A run that returned a result to which the rule added <<loc, code>> once
Emitted(run, loc, code) == run.outcome = "returned" /\ Count(run.rule, loc, code) = 1

\* C5: for a Data element whose series is present, validation emits one
\* INVALID_MEASUREMENTLIST at the element exactly when the MeasurementList
\* length differs from the column count of the series, and INVALID_TIME at
\* /time exactly when the time vector length differs from its row count.
C5_ShapeDiagnostics ==
    (elemRun.done /\ elem.kind = "data" /\ elem.array # None) =>
        LET shape == Val(elem.array) IN
        /\ Len(shape) >= 2 =>
             /\ Emitted(elemRun, ElemLocation, "INVALID_MEASUREMENTLIST")
                  <=> Len(elem.measurementList) # shape[2]
             /\ Count(elemRun.rule, ElemLocation, "INVALID_MEASUREMENTLIST") <= 1
        /\ (Len(shape) >= 1 /\ elem.time # None) =>
             (Emitted(elemRun, ElemLocation \o "/time", "INVALID_TIME")
                  <=> Val(elem.time) # shape[1])

\* C6: validate() on a document returns a ValidationResult for every
\* content of the document; no exception escapes it.
C6_ValidateNeverRaises == docRun.done => docRun.outcome = "returned"

\* C7: after close(), save, validate and field access fail, and none of them
\* uses the closed handle.
C7_FailFastAfterClose ==
    (lifeOp.op \in {"save", "validate", "getitem"} /\ ~lifeOp.wasOpen) =>
        (lifeOp.outcome = "raised" /\ ~lifeOp.used)

\* C8: when a `with` block on a document has been left, normally or by an
\* exception, the handle is closed, and an exception of the block propagates.
C8_ScopeReleasesHandle ==
    scope = "exited" =>
        /\ ~h.open
        /\ (lifeOp.op = "exit" /\ lifeOp.exc # "None") => lifeOp.propagated

\* C8 witness: a block on an open document left by an exception
C8_Witness ==
    /\ scope = "exited" /\ lifeOp.op = "exit"
    /\ lifeOp.exc = "IndexError" /\ lifeOp.wasOpen /\ ~h.open /\ lifeOp.propagated

\* The backend C9 states for an argument of save()
SaveTarget(arg, filename) ==
    IF arg.kind = "filelike" THEN Stream(arg.id)
    ELSE IF arg.kind = "str"
    THEN LET q == IF EndsWith(arg.id, Suffix) THEN arg.id ELSE arg.id \o Suffix
         IN  IF q = filename THEN File(filename) ELSE File(q)
    ELSE File(filename)

\* C9: save() leaves every backend but its target as it was, and on an open
\* document writes the tree into the target: the file the document was
\* opened from for no argument or a path naming it (suffix appended when
\* missing), the file at any other path, the stream for a stream.
C9_SaveTarget ==
    (lifeOp.op = "save" /\ lifeOp.arg.kind \in {"none", "str", "filelike"}) =>
        LET t == SaveTarget(lifeOp.arg, lifeOp.filename) IN
        /\ \A b \in Backends \ {t} : store[b] = lifeOp.storeBefore[b]
        /\ lifeOp.wasOpen => (lifeOp.outcome = "ok" /\ store[t] = Some(lifeOp.tree))

\* C9 witness: a modified tree saved under a bare name with a dot in it; the
\* new file holds the tree and the file the document came from does not
C9_Witness ==
    /\ lifeOp.op = "save" /\ lifeOp.wasOpen
    /\ lifeOp.arg = [kind |-> "str", id |-> <<"a", ".", "b">>]
    /\ lifeOp.filename = <<"a">> \o Suffix
    /\ store[File(<<"a", ".", "b">> \o Suffix)] = Some(lifeOp.tree)
    /\ store[File(lifeOp.filename)] # Some(lifeOp.tree)

\* C10: the codes of the Probe rule are added before the template runs, and
\* for sourceLabels and the four position arrays the result holds the code
\* of the rule and no other; with both 2D arrays present and both 3D arrays
\* absent it holds OK at /sourcePos2D and OPTIONAL_DATASET_MISSING at
\* /sourcePos3D.
C10_OverrideSupersedesTemplate ==
    probeRun.done =>
        /\ SubSeq(probeRun.calls, 1, Len(probeRun.rule)) = probeRun.rule
        /\ \A i \in 1..Len(probeRun.rule) :
             probeRun.rule[i][1] \in
                 {probe.location \o f : f \in PositionFields \cup {"/sourceLabels"}}
             => CodesAt(probeRun.result, probeRun.rule[i][1]) = {probeRun.rule[i][2]}
        /\ (probe.sourcePos2D /\ probe.detectorPos2D
            /\ ~probe.sourcePos3D /\ ~probe.detectorPos3D) =>
             /\ CodesAt(probeRun.result, probe.location \o "/sourcePos2D") = {"OK"}
             /\ CodesAt(probeRun.result, probe.location \o "/sourcePos3D")
                  = {"OPTIONAL_DATASET_MISSING"}

\* C10 witness: 2D present and 3D absent, where the template later calls _add
\* with REQUIRED_DATASET_MISSING for /sourcePos3D and the call is dropped
C10_Witness ==
    /\ probeRun.done
    /\ probe.sourcePos2D /\ probe.detectorPos2D
    /\ ~probe.sourcePos3D /\ ~probe.detectorPos3D
    /\ <<probe.location \o "/sourcePos3D", "REQUIRED_DATASET_MISSING">>
           \in Range(probeRun.calls)
    /\ <<probe.location \o "/sourcePos3D", "OPTIONAL_DATASET_MISSING">>
           \in Range(probeRun.result)

=============================================================================
